---- MODULE Spec2Model ----
(***************************************************************************)
(* The layered configuration subsystem of src/utils/config.js: ini files   *)
(* are parsed into trees on the JavaScript heap, deep-merged, validated    *)
(* against the Joi schema, path-resolved and published on the exported api *)
(* object.  Strings are sequences of tokens (a token is a character or an  *)
(* opaque run of characters), objects and arrays live on an explicit heap  *)
(* so that aliasing is visible.                                            *)
(***************************************************************************)
EXTENDS Integers, Sequences, FiniteSets, TLC

VARIABLES
  heap,            \* the JavaScript heap: a sequence of objects, address = index
  files,           \* config/ directory: file name -> [exists, lines]
  envVar,          \* process.env.NODE_ENV as a string (<<>> when unset)
  fsys,            \* the set of absolute paths that exist on the filesystem
  loaded,          \* config.js: let loaded
  resolvedConfig,  \* config.js: let resolvedConfig (a value, Null before load)
  outcomes,        \* how each call of load() ended, in call order
  logs,            \* the entries handed to the log collaborator
  reads,           \* number of fs.readFileSync calls made so far
  pred,            \* result of the latest predicate call
  ops,             \* number of client operations performed after construction
  margs,           \* arguments of the mergeDeep call under study
  mres             \* result of the mergeDeep call under study

vars == <<heap, files, envVar, fsys, loaded, resolvedConfig, outcomes, logs,
          reads, pred, ops, margs, mres>>

(***************************************************************************)
(* JavaScript values.                                                      *)
(***************************************************************************)
Undef == [t |-> "undefined", s |-> <<>>, n |-> 0]

Null == [t |-> "null", s |-> <<>>, n |-> 0]

Bool(b) == [t |-> "boolean", s |-> <<>>, n |-> IF b THEN 1 ELSE 0]

Num(i) == [t |-> "number", s |-> <<>>, n |-> i]

Str(toks) == [t |-> "string", s |-> toks, n |-> 0]

Ref(a) == [t |-> "ref", s |-> <<>>, n |-> a]

\* value == null || value === undefined
IsNullish(v) == v.t \in {"undefined", "null"}

\* an object literal {} / Object.create(null)
EmptyObject ==
  [kind |-> "object", ord |-> <<>>, props |-> <<>>, elems |-> <<>>, frozen |-> FALSE]

\* an array literal []
EmptyArray ==
  [kind |-> "array", ord |-> <<>>, props |-> <<>>, elems |-> <<>>, frozen |-> FALSE]

\* allocation of a fresh object: its address is Len(h) + 1
Alloc(h, o) == Append(h, o)

IsArray(h, v) == v.t = "ref" /\ h[v.n].kind = "array"

\* value && typeof value === "object" && !Array.isArray(value)
IsTree(h, v) == v.t = "ref" /\ h[v.n].kind = "object"

HasOwn(h, v, key) == v.t = "ref" /\ key \in DOMAIN h[v.n].props

\* target[key] as an expression (keys are never prototype property names)
GetProp(h, v, key) == IF HasOwn(h, v, key) THEN h[v.n].props[key] ELSE Undef

\* target[key] = value in strict mode (an ES module): a TypeError on a
\* primitive, on null/undefined and on a frozen object
SetProp(h, v, key, value) ==
  IF v.t # "ref" \/ h[v.n].frozen
  THEN [h |-> h, err |-> TRUE]
  ELSE LET o == h[v.n]
           o2 == [o EXCEPT
                    !.ord = IF key \in DOMAIN o.props THEN o.ord ELSE Append(o.ord, key),
                    !.props = [k \in DOMAIN o.props \cup {key} |->
                                 IF k = key THEN value ELSE o.props[k]]]
       IN [h |-> [h EXCEPT ![v.n] = o2], err |-> FALSE]

\* array.push(value)
Push(h, v, value) == [h EXCEPT ![v.n].elems = Append(h[v.n].elems, value)]

(***************************************************************************)
(* ini.parse: a file is a sequence of lines, each a section header         *)
(* "[name]", an assignment "key = text" or an array item "key[] = text".   *)
(***************************************************************************)
Sec(name) == [kind |-> "section", key |-> name, text |-> <<>>]

KV(key, text) == [kind |-> "kv", key |-> key, text |-> text]

Item(key, text) == [kind |-> "item", key |-> key, text |-> text]

\* ini turns the words true, false and null into JSON values, all else is a string
Decode(text) ==
  IF text = <<"true">> THEN Bool(TRUE)
  ELSE IF text = <<"false">> THEN Bool(FALSE)
  ELSE IF text = <<"null">> THEN Null
  ELSE Str(text)

\* a key with a [] suffix is converted to an array before the value is stored
IniArray(h, p, key) ==
  IF ~HasOwn(h, p, key)
  THEN SetProp(Alloc(h, EmptyArray), p, key, Ref(Len(h) + 1)).h
  ELSE IF ~IsArray(h, GetProp(h, p, key))
  THEN SetProp(Push(Alloc(h, EmptyArray), Ref(Len(h) + 1), GetProp(h, p, key)),
               p, key, Ref(Len(h) + 1)).h
  ELSE h

\* an existing array is pushed to, anything else is overwritten
IniStore(h, p, key, value) ==
  IF IsArray(h, GetProp(h, p, key)) THEN Push(h, GetProp(h, p, key), value)
  ELSE SetProp(h, p, key, value).h

\* lines i.. of the file, with out the root object and p the current section
RECURSIVE IniLines(_, _, _, _, _)
IniLines(h, lines, i, out, p) ==
  IF i > Len(lines) THEN h
  ELSE IF lines[i].kind = "section"
  THEN IF IsTree(h, GetProp(h, out, lines[i].key))
       THEN IniLines(h, lines, i + 1, out, GetProp(h, out, lines[i].key))
       ELSE IniLines(SetProp(Alloc(h, EmptyObject), out, lines[i].key, Ref(Len(h) + 1)).h,
                     lines, i + 1, out, Ref(Len(h) + 1))
  ELSE IniLines(IniStore(IF lines[i].kind = "item" THEN IniArray(h, p, lines[i].key) ELSE h,
                         p, lines[i].key, Decode(lines[i].text)),
                lines, i + 1, out, p)

\* ini.parse(text): the heap after parsing; the root is at address Len(h) + 1
IniParse(h, lines) ==
  IniLines(Alloc(h, EmptyObject), lines, 1, Ref(Len(h) + 1), Ref(Len(h) + 1))

(***************************************************************************)
(* mergeDeep                                                               *)
(***************************************************************************)
Ok(h) == [h |-> h, err |-> FALSE]

\* target[key] ??= {}
NullishAssign(h, target, key) ==
  IF IsNullish(GetProp(h, target, key))
  THEN SetProp(Alloc(h, EmptyObject), target, key, Ref(Len(h) + 1))
  ELSE Ok(h)

RECURSIVE MergeSource(_, _, _, _)
RECURSIVE MergeNested(_, _, _, _)
RECURSIVE MergeRest(_, _, _, _)

\* the rest of the for-in loop once the i-th key has been handled with result r
MergeRest(r, target, source, i) ==
  IF r.err THEN r ELSE MergeSource(r.h, target, source, i + 1)

\* mergeDeep(target[key], value) after target[key] ??= {} has given r
MergeNested(r, target, key, value) ==
  IF r.err THEN r ELSE MergeSource(r.h, GetProp(r.h, target, key), value, 1)

\* the for-in loop over one source, from its i-th key on; target is a value
MergeSource(h, target, source, i) ==
  IF i > Len(h[source.n].ord) THEN Ok(h)
  ELSE IF IsTree(h, h[source.n].props[h[source.n].ord[i]])
  THEN MergeRest(MergeNested(NullishAssign(h, target, h[source.n].ord[i]), target,
                             h[source.n].ord[i], h[source.n].props[h[source.n].ord[i]]),
                 target, source, i)
  ELSE MergeRest(SetProp(h, target, h[source.n].ord[i], h[source.n].props[h[source.n].ord[i]]),
                 target, source, i)

\* mergeDeep(target, ...sources), from the j-th source on
RECURSIVE MergeDeepFrom(_, _, _, _)
MergeDeepFrom(r, target, sources, j) ==
  IF r.err \/ j > Len(sources) THEN r
  ELSE MergeDeepFrom(MergeSource(r.h, target, sources[j], 1), target, sources, j + 1)

MergeDeep(h, target, sources) == MergeDeepFrom(Ok(h), target, sources, 1)

(***************************************************************************)
(* Strings: length, numbers, the bodyLimit pattern, URIs                   *)
(***************************************************************************)
Digits == {"0", "1", "2", "3", "4", "5", "6", "7", "8", "9"}

DigitVal(c) ==
  CASE c = "0" -> 0 [] c = "1" -> 1 [] c = "2" -> 2 [] c = "3" -> 3 [] c = "4" -> 4
    [] c = "5" -> 5 [] c = "6" -> 6 [] c = "7" -> 7 [] c = "8" -> 8 [] c = "9" -> 9

\* string.length: the tokens' lengths added up
RECURSIVE StrLen(_)
StrLen(s) == IF s = <<>> THEN 0 ELSE Len(Head(s)) + StrLen(Tail(s))

IsDigits(s) == Len(s) > 0 /\ \A i \in 1..Len(s) : s[i] \in Digits

\* the number a string of digits denotes
RECURSIVE ToNumber(_)
ToNumber(s) ==
  IF s = <<>> THEN 0 ELSE 10 * ToNumber(SubSeq(s, 1, Len(s) - 1)) + DigitVal(s[Len(s)])

\* the i flag of the bodyLimit pattern
Lower(c) == CASE c = "B" -> "b" [] c = "K" -> "k" [] c = "M" -> "m" [] OTHER -> c

\* /^\d+(b|kb|mb)$/i
MatchesBodyLimit(s) ==
  \E k \in 1..(Len(s) - 1) :
    /\ IsDigits(SubSeq(s, 1, k))
    /\ [i \in 1..(Len(s) - k) |-> Lower(s[k + i])] \in {<<"b">>, <<"k", "b">>, <<"m", "b">>}

\* Joi.string().uri(): a scheme, a colon, the rest
IsUri(s) == Len(s) >= 2 /\ s[2] = ":" /\ s[1] \notin {":", "/", "//", ""} \cup Digits

(***************************************************************************)
(* Paths: a path string is split at its "/" tokens.                        *)
(***************************************************************************)
PROJECT_ROOT == <<"/", "app">>

\* path.join(dir, name) for a plain name
PathJoin(dir, name) == dir \o <<"/">> \o name

CONFIG_DIR == PathJoin(PROJECT_ROOT, <<"config">>)

IsAbsolute(s) == Len(s) > 0 /\ s[1] \in {"/", "//"}

\* the segments of a path, normalised as path.resolve does: "." and empty
\* segments are dropped, ".." removes the segment before it
RECURSIVE Segments(_, _)
Segments(s, acc) ==
  IF s = <<>> THEN acc
  ELSE IF Head(s) \in {"/", "//", "."} THEN Segments(Tail(s), acc)
  ELSE IF Head(s) = ".."
       THEN Segments(Tail(s), IF acc = <<>> THEN acc ELSE SubSeq(acc, 1, Len(acc) - 1))
  ELSE Segments(Tail(s), Append(acc, Head(s)))

RECURSIVE FromSegments(_)
FromSegments(segs) ==
  IF segs = <<>> THEN <<>> ELSE <<"/", Head(segs)>> \o FromSegments(Tail(segs))

\* path.resolve(from, to): an absolute, normalised path
PathResolve(from, to) ==
  LET segs == IF IsAbsolute(to) THEN Segments(to, <<>>)
              ELSE Segments(to, Segments(from, <<>>))
  IN IF segs = <<>> THEN <<"/">> ELSE FromSegments(segs)

(***************************************************************************)
(* The Joi schema of validate, with abortEarly: false and convert: true    *)
(***************************************************************************)
Environments == {<<"production">>, <<"development">>, <<"staging">>, <<"testing">>}

SchemaSections == <<"http", "rateLimit", "session", "paths", "valkey">>

SectionFields(sec) ==
  CASE sec = "http" -> <<"port", "bodyLimit">>
    [] sec = "rateLimit" -> <<"minutes", "requests">>
    [] sec = "session" -> <<"secret">>
    [] sec = "paths" -> <<"static", "views", "viewsLayouts", "viewsPartials", "emails",
                          "defaultLayout">>
    [] sec = "valkey" -> <<"url">>

MaxPort == 65535

MinSecret == 32

Detail(path, type) == [path |-> path, type |-> type]

\* Joi.number().integer().min(lo).max(hi).required(); hi = 0 stands for no maximum
NumberRule(path, v, lo, hi) ==
  LET c == IF v.t = "string" /\ IsDigits(v.s) THEN Num(ToNumber(v.s)) ELSE v
  IN IF v.t = "undefined" THEN [errs |-> <<Detail(path, "any.required")>>, value |-> v]
     ELSE IF c.t # "number" THEN [errs |-> <<Detail(path, "number.base")>>, value |-> v]
     ELSE [errs |-> (IF c.n < lo THEN <<Detail(path, "number.min")>> ELSE <<>>)
                    \o (IF hi > 0 /\ c.n > hi THEN <<Detail(path, "number.max")>> ELSE <<>>),
           value |-> c]

\* Joi.string().<rule>.required(); ok is the rule applied to the string
StringRule(path, v, ok, type) ==
  [errs |-> IF v.t = "undefined" THEN <<Detail(path, "any.required")>>
            ELSE IF v.t # "string" THEN <<Detail(path, "string.base")>>
            ELSE IF v.s = <<>> THEN <<Detail(path, "string.empty")>>
            ELSE IF ~ok THEN <<Detail(path, type)>>
            ELSE <<>>,
   value |-> v]

\* Joi.string().valid(...).required()
EnvRule(path, v) ==
  [errs |-> IF v.t = "undefined" THEN <<Detail(path, "any.required")>>
            ELSE IF v.t = "string" /\ v.s \in Environments THEN <<>>
            ELSE <<Detail(path, "any.only")>>
                 \o (IF v.t # "string" THEN <<Detail(path, "string.base")>>
                     ELSE IF v.s = <<>> THEN <<Detail(path, "string.empty")>>
                     ELSE <<>>),
   value |-> v]

\* the schema of one field of one section
FieldRule(sec, key, v) ==
  LET path == <<sec, key>> IN
  CASE key = "port" -> NumberRule(path, v, 1, MaxPort)
    [] key \in {"minutes", "requests"} -> NumberRule(path, v, 1, 0)
    [] key = "bodyLimit" -> StringRule(path, v, MatchesBodyLimit(v.s), "string.pattern.base")
    [] key = "secret" -> StringRule(path, v, StrLen(v.s) >= MinSecret, "string.min")
    [] key = "url" -> StringRule(path, v, IsUri(v.s), "string.uri")
    [] OTHER -> StringRule(path, v, TRUE, "")

\* the fields of section sec from the i-th on: their violations, in schema order
RECURSIVE FieldErrors(_, _, _, _)
FieldErrors(h, o, sec, i) ==
  IF i > Len(SectionFields(sec)) THEN <<>>
  ELSE FieldRule(sec, SectionFields(sec)[i], GetProp(h, o, SectionFields(sec)[i])).errs
       \o FieldErrors(h, o, sec, i + 1)

\* keys of a nested section that the schema does not name: Joi.object() allows
\* none unless .unknown(true) is set on that very object
RECURSIVE UnknownErrors(_, _, _, _)
UnknownErrors(h, o, sec, i) ==
  IF i > Len(h[o.n].ord) THEN <<>>
  ELSE (IF \E j \in 1..Len(SectionFields(sec)) : SectionFields(sec)[j] = h[o.n].ord[i]
        THEN <<>> ELSE <<Detail(<<sec, h[o.n].ord[i]>>, "object.unknown")>>)
       \o UnknownErrors(h, o, sec, i + 1)

\* Joi.object({...}).required() for section sec of raw
SectionErrors(h, raw, sec) ==
  LET o == GetProp(h, raw, sec)
  IN IF o.t = "undefined" THEN <<Detail(<<sec>>, "any.required")>>
     ELSE IF ~IsTree(h, o) THEN <<Detail(<<sec>>, "object.base")>>
     ELSE FieldErrors(h, o, sec, 1) \o UnknownErrors(h, o, sec, 1)

RECURSIVE AllSectionErrors(_, _, _)
AllSectionErrors(h, raw, i) ==
  IF i > Len(SchemaSections) THEN <<>>
  ELSE SectionErrors(h, raw, SchemaSections[i]) \o AllSectionErrors(h, raw, i + 1)

\* the details with abortEarly left at its default: the first violation only
FirstOnly(details) == IF details = <<>> THEN <<>> ELSE <<Head(details)>>

SchemaErrorsAbortEarly(h, raw) ==
  FirstOnly(EnvRule(<<"NODE_ENV">>, GetProp(h, raw, "NODE_ENV")).errs \o AllSectionErrors(h, raw, 1))

\* error.details of schema.validate(raw, {abortEarly: false, convert: true});
\* the top-level object is .unknown(true)
SchemaErrors(h, raw) ==
  EnvRule(<<"NODE_ENV">>, GetProp(h, raw, "NODE_ENV")).errs \o AllSectionErrors(h, raw, 1)

\* the converted copy of one section: same keys, in the same order
ConvertedSection(h, o, sec) ==
  [EmptyObject EXCEPT
     !.ord = h[o.n].ord,
     !.props = [k \in DOMAIN h[o.n].props |-> FieldRule(sec, k, h[o.n].props[k]).value]]

\* value of schema.validate for a raw without violations: a copy of raw at
\* address Len(h) + 1 whose sections are converted copies
RECURSIVE ConvertSections(_, _, _)
ConvertSections(h, value, i) ==
  IF i > Len(SchemaSections) THEN h
  ELSE ConvertSections(
         SetProp(Alloc(h, ConvertedSection(h, GetProp(h, value, SchemaSections[i]),
                                           SchemaSections[i])),
                 value, SchemaSections[i], Ref(Len(h) + 1)).h,
         value, i + 1)

SchemaValue(h, raw) ==
  ConvertSections(Alloc(h, [h[raw.n] EXCEPT !.frozen = FALSE]), Ref(Len(h) + 1), 1)

\* the loop over the paths without the defaultLayout exemption
RECURSIVE ResolvePathsNoSkip(_, _, _, _)
ResolvePathsNoSkip(h, paths, fs, i) ==
  IF i > Len(h[paths.n].ord) THEN [h |-> h, err |-> FALSE, key |-> "", resolved |-> <<>>]
  ELSE LET key == h[paths.n].ord[i]
           resolved == PathResolve(PROJECT_ROOT, h[paths.n].props[key].s)
       IN IF resolved \notin fs
          THEN [h |-> h, err |-> TRUE, key |-> key, resolved |-> resolved]
          ELSE ResolvePathsNoSkip(SetProp(h, paths, key, Str(resolved)).h, paths, fs, i + 1)

\* the loop of validate over Object.keys(value.paths), from the i-th key on
RECURSIVE ResolvePaths(_, _, _, _)
ResolvePaths(h, paths, fs, i) ==
  IF i > Len(h[paths.n].ord) THEN [h |-> h, err |-> FALSE, key |-> "", resolved |-> <<>>]
  ELSE LET key == h[paths.n].ord[i]
           resolved == PathResolve(PROJECT_ROOT, h[paths.n].props[key].s)
       IN IF key = "defaultLayout" THEN ResolvePaths(h, paths, fs, i + 1)
          ELSE IF resolved \notin fs
               THEN [h |-> h, err |-> TRUE, key |-> key, resolved |-> resolved]
          ELSE ResolvePaths(SetProp(h, paths, key, Str(resolved)).h, paths, fs, i + 1)

ConfigFields == <<"env", "http", "rateLimit", "session", "paths", "valkey">>

\* the object literal validate returns, frozen (Object.freeze is shallow)
FrozenConfig(h, value) ==
  [EmptyObject EXCEPT
     !.ord = ConfigFields,
     !.props = [k \in {ConfigFields[i] : i \in 1..Len(ConfigFields)} |->
                  IF k = "env" THEN GetProp(h, value, "NODE_ENV") ELSE GetProp(h, value, k)],
     !.frozen = TRUE]

NoError == [result |-> "returned", path |-> <<>>, field |-> "", details |-> <<>>]

Failure(result, path, field, details) ==
  [result |-> result, path |-> path, field |-> field, details |-> details]

\* the end of validate: r is what the loop over the paths gave
ValidateEnd(r, value) ==
  IF r.err
  THEN [h |-> r.h, config |-> Null, end |-> Failure("PathNotFound", r.resolved, r.key, <<>>)]
  ELSE [h |-> Alloc(r.h, FrozenConfig(r.h, value)), config |-> Ref(Len(r.h) + 1),
        end |-> NoError]

\* validate after the schema has accepted raw and given value (in heap h)
ValidatePaths(h, value, fs) ==
  ValidateEnd(ResolvePaths(h, GetProp(h, value, "paths"), fs, 1), value)

\* validate(raw): the heap after it, how it ended, and the config it returns
Validate(h, raw, fs) ==
  IF SchemaErrors(h, raw) # <<>>
  THEN [h |-> h, config |-> Null,
        end |-> Failure("InvalidConfiguration", <<>>, "", SchemaErrors(h, raw))]
  ELSE ValidatePaths(SchemaValue(h, raw), Ref(Len(h) + 1), fs)

LogEntry(level, what, arg) == [level |-> level, what |-> what, arg |-> arg]

\* loadIniFile that treats every file as required
LoadIniFileAllRequired(h, fls, filename, required) ==
  LET fullPath == PathJoin(CONFIG_DIR, filename)
  IN IF fullPath \notin DOMAIN fls
     THEN [h |-> h, tree |-> Undef, logs |-> <<>>, reads |-> 0,
           end |-> [result |-> "MissingConfigFile", path |-> fullPath, field |-> "",
                    details |-> <<>>]]
     ELSE [h |-> IniParse(h, fls[fullPath]), tree |-> Ref(Len(h) + 1),
           logs |-> <<LogEntry("info", "file-loaded", fullPath)>>, reads |-> 1,
           end |-> NoError]

\* loadIniFile(filename, {required}); fls maps the paths of the files that exist
LoadIniFile(h, fls, filename, required) ==
  LET fullPath == PathJoin(CONFIG_DIR, filename)
  IN IF fullPath \notin DOMAIN fls
     THEN IF required
          THEN [h |-> h, tree |-> Undef, logs |-> <<>>, reads |-> 0,
                end |-> Failure("MissingConfigFile", fullPath, "", <<>>)]
          ELSE [h |-> Alloc(h, EmptyObject), tree |-> Ref(Len(h) + 1),
                logs |-> <<LogEntry("warn", "file-missing", fullPath)>>, reads |-> 0,
                end |-> NoError]
     ELSE [h |-> IniParse(h, fls[fullPath]), tree |-> Ref(Len(h) + 1),
           logs |-> <<LogEntry("info", "file-loaded", fullPath)>>, reads |-> 1,
           end |-> NoError]

\* process.env.NODE_ENV || "development"
Runtime(ev) == IF ev = <<>> THEN <<"development">> ELSE ev

\* the address of the exported api object
ApiAddr == 1

Api == Ref(ApiAddr)

\* Object.assign(api, config): the own properties of config, in order
RECURSIVE ObjectAssign(_, _, _, _)
ObjectAssign(h, target, source, i) ==
  IF i > Len(h[source.n].ord) THEN h
  ELSE ObjectAssign(SetProp(h, target, h[source.n].ord[i],
                            h[source.n].props[h[source.n].ord[i]]).h,
                    target, source, i + 1)

Thrown(h, lg, io, end) ==
  [h |-> h, config |-> Null, logs |-> lg, reads |-> io, end |-> end]

\* load() from Object.assign on: v is what validate gave
LoadPublish(v, lg, io, runtime) ==
  IF v.end.result # "returned" THEN Thrown(v.h, lg, io, v.end)
  ELSE [h |-> ObjectAssign(v.h, Api, v.config, 1), config |-> v.config,
        logs |-> Append(lg, LogEntry("info", "load-complete", runtime)),
        reads |-> io, end |-> NoError]

\* load() from validate on: m is what mergeDeep gave for the tree merged
LoadValidate(m, merged, lg, io, runtime, fs) ==
  IF m.err THEN Thrown(m.h, lg, io, Failure("TypeError", <<>>, "", <<>>))
  ELSE LoadPublish(Validate(m.h, merged, fs), lg, io, runtime)

\* load() from mergeDeep({}, common, envSpecific) on
LoadMerge(common, envSpecific, runtime, fs) ==
  IF envSpecific.end.result # "returned"
  THEN Thrown(envSpecific.h, common.logs, common.reads, envSpecific.end)
  ELSE LoadValidate(MergeDeep(Alloc(envSpecific.h, EmptyObject), Ref(Len(envSpecific.h) + 1),
                              <<common.tree, envSpecific.tree>>),
                    Ref(Len(envSpecific.h) + 1), common.logs \o envSpecific.logs,
                    common.reads + envSpecific.reads, runtime, fs)

\* load() from the second loadIniFile on
LoadEnvSpecific(common, fls, runtime, fs) ==
  IF common.end.result # "returned" THEN Thrown(common.h, <<>>, 0, common.end)
  ELSE LoadMerge(common,
                 LoadIniFile(common.h, fls, runtime \o <<".ini">>, runtime = <<"production">>),
                 runtime, fs)

\* the body of load() after loaded = true
LoadBody(h, fls, ev, fs) ==
  LoadEnvSpecific(LoadIniFile(h, fls, <<"common", ".ini">>, TRUE), fls, Runtime(ev), fs)

(***************************************************************************)
(* The environment a process starts in: the files of config/, NODE_ENV and *)
(* the filesystem.  A scenario is the reference deployment below with a    *)
(* bounded number of deviations from it.                                   *)
(***************************************************************************)
BaseLines ==
  << KV("NODE_ENV", <<"development">>),
     Sec("http"),
     KV("port", <<"8", "0", "8", "0">>),
     KV("bodyLimit", <<"1", "0", "m", "b">>),
     Sec("rateLimit"),
     KV("minutes", <<"1", "5">>),
     KV("requests", <<"1", "0", "0">>),
     Sec("session"),
     KV("secret", <<"0123456789abcdef", "0123456789abcdef">>),
     Sec("paths"),
     KV("static", <<"public">>),
     KV("views", <<"views">>),
     KV("viewsLayouts", <<"views", "/", "layouts">>),
     KV("viewsPartials", <<"views", "/", "partials">>),
     KV("emails", <<"/", "srv", "/", "emails">>),
     KV("defaultLayout", <<"main">>),
     Sec("valkey"),
     KV("url", <<"redis", ":", "//", "localhost">>) >>

\* what may stand in place of the i-th line of common.ini
Variants(i) ==
  LET b == BaseLines[i] IN
  {<<>>} \cup
  CASE b.key = "NODE_ENV" -> {<<KV("NODE_ENV", <<"qa">>)>>, <<KV("NODE_ENV", <<"staging">>)>>,
                              <<b, KV("extra", <<"1">>)>>}
    [] b.key = "http" /\ b.kind = "section" -> {<<KV("http", <<"off">>)>>}
    [] b.key = "port" -> {<<KV("port", <<"7", "0", "0", "0", "0">>)>>,
                          <<KV("port", <<"http">>)>>, <<b, KV("extra", <<"1">>)>>}
    [] b.key = "bodyLimit" -> {<<KV("bodyLimit", <<"1", "0", "g", "b">>)>>,
                               <<KV("bodyLimit", <<"5", "K", "B">>)>>}
    [] b.key = "minutes" -> {<<KV("minutes", <<"0">>)>>}
    [] b.key = "requests" -> {<<KV("requests", <<"true">>)>>}
    [] b.key = "secret" -> {<<KV("secret", <<"0123456789abcdef">>)>>}
    [] b.key = "static" -> {<<KV("static", <<"true">>)>>,
                            <<KV("views", <<"views">>), b>>}
    [] b.key = "views" -> {<<KV("views", <<"views", "/", "..", "/", "views">>)>>}
    [] b.key = "emails" -> {<<KV("emails", <<"srv", "/", "emails">>)>>,
                            <<KV("emails", <<"/", "srv", "/", ".", "/", "emails">>)>>,
                            <<b, KV("extra", <<"1">>)>>}
    [] b.key = "defaultLayout" -> {<<KV("defaultLayout", <<"nolayout">>)>>}
    [] b.key = "url" -> {<<KV("url", <<"localhost">>)>>}
    [] OTHER -> {}

\* the contents an environment-specific file may have
EnvContents ==
  << <<KV("NODE_ENV", <<"production">>)>>,
     <<Sec("paths"), KV("views", <<"templates">>)>>,
     <<Sec("http"), KV("port", <<"9", "0">>)>> >>

EnvNames == << <<"development">>, <<"production">>, <<"staging">> >>

\* the directories of the reference deployment
FsFull ==
  { <<"/", "app", "/", "public">>, <<"/", "app", "/", "views">>,
    <<"/", "app", "/", "views", "/", "layouts">>, <<"/", "app", "/", "views", "/", "partials">>,
    <<"/", "srv", "/", "emails">> }

\* sets of directories that may be missing
FsRemovals ==
  << {<<"/", "app", "/", "public">>}, {<<"/", "app", "/", "views">>},
     {<<"/", "app", "/", "public">>, <<"/", "app", "/", "views">>},
     {<<"/", "srv", "/", "emails">>} >>

Dev(what, at, alt, lines) == [what |-> what, at |-> at, alt |-> alt, lines |-> lines]

Deviations ==
  UNION {{Dev("slot", i, 0, v) : v \in Variants(i)} : i \in 1..Len(BaseLines)}
  \cup {Dev("envfile", n, c, EnvContents[c]) : n \in 1..Len(EnvNames), c \in 1..Len(EnvContents)}
  \cup {Dev("envvar", n, 0, <<>>) : n \in 1..Len(EnvNames)}
  \cup {Dev("fs", r, 0, <<>>) : r \in 1..Len(FsRemovals)}
  \cup {Dev("nocommon", 0, 0, <<>>)}

RECURSIVE SubsetsUpTo(_, _)
SubsetsUpTo(S, k) ==
  IF k = 0 THEN {{}}
  ELSE LET P == SubsetsUpTo(S, k - 1) IN P \cup {T \cup {e} : T \in P, e \in S}

\* at most one deviation of each line, file, variable
Consistent(T) ==
  \A d, e \in T :
    (d # e /\ d.what = e.what) => (d.what = "slot" /\ d.at # e.at)

Scenarios(D, k) == {T \in SubsetsUpTo(D, k) : Consistent(T)}

RECURSIVE CommonLines(_, _)
CommonLines(T, i) ==
  IF i > Len(BaseLines) THEN <<>>
  ELSE (IF \E d \in T : d.what = "slot" /\ d.at = i
        THEN (CHOOSE d \in T : d.what = "slot" /\ d.at = i).lines
        ELSE <<BaseLines[i]>>) \o CommonLines(T, i + 1)

CommonPath == PathJoin(CONFIG_DIR, <<"common", ".ini">>)

EnvPath(name) == PathJoin(CONFIG_DIR, name \o <<".ini">>)

ScenarioFiles(T) ==
  LET paths == (IF \E d \in T : d.what = "nocommon" THEN {} ELSE {CommonPath})
               \cup {EnvPath(EnvNames[d.at]) : d \in {e \in T : e.what = "envfile"}}
  IN [p \in paths |->
        IF p = CommonPath THEN CommonLines(T, 1)
        ELSE (CHOOSE d \in T : d.what = "envfile").lines]

ScenarioEnvVar(T) ==
  IF \E d \in T : d.what = "envvar"
  THEN EnvNames[(CHOOSE d \in T : d.what = "envvar").at] ELSE <<>>

ScenarioFs(T) == FsFull \ UNION {FsRemovals[d.at] : d \in {e \in T : e.what = "fs"}}

\* the state of the module after import, in the environment of scenario T
Start(T) ==
  /\ heap = <<EmptyObject>>
  /\ files = ScenarioFiles(T)
  /\ envVar = ScenarioEnvVar(T)
  /\ fsys = ScenarioFs(T)
  /\ loaded = FALSE
  /\ resolvedConfig = Null
  /\ outcomes = <<>>
  /\ logs = <<>>
  /\ reads = 0
  /\ pred = <<>>
  /\ ops = 0
  /\ margs = <<>>
  /\ mres = [done |-> FALSE, err |-> FALSE]

(***************************************************************************)
(* The operations of the exported api object                               *)
(***************************************************************************)
MaxLoads == 2

MaxOps == 1

MaxDeviations == 2

MaxLifecycleDeviations == 1

\* load() without the loaded guard: every call runs the pipeline
LoadUnguarded ==
  /\ Len(outcomes) < MaxLoads
  /\ LET r == LoadBody(heap, files, envVar, fsys)
     IN /\ loaded' = TRUE
        /\ heap' = r.h
        /\ resolvedConfig' = IF r.config = Null THEN resolvedConfig ELSE r.config
        /\ logs' = logs \o r.logs
        /\ reads' = reads + r.reads
        /\ outcomes' = Append(outcomes, r.end)
  /\ UNCHANGED <<files, envVar, fsys, pred, ops, margs, mres>>

\* load()
Load ==
  /\ Len(outcomes) < MaxLoads
  /\ IF loaded
     THEN /\ outcomes' = Append(outcomes, NoError)
          /\ UNCHANGED <<heap, loaded, resolvedConfig, logs, reads>>
     ELSE LET r == LoadBody(heap, files, envVar, fsys)
          IN /\ loaded' = TRUE
             /\ heap' = r.h
             /\ resolvedConfig' = r.config
             /\ logs' = logs \o r.logs
             /\ reads' = reads + r.reads
             /\ outcomes' = Append(outcomes, r.end)
  /\ UNCHANGED <<files, envVar, fsys, pred, ops, margs, mres>>

\* isDevelopment(), isProduction(), isStaging(), isTesting()
Predicate(name) == GetProp(heap, Api, "env") = Str(name)

CallPredicate ==
  /\ \E name \in Environments : pred' = <<name, Predicate(name)>>
  /\ pred' # pred
  /\ UNCHANGED <<heap, files, envVar, fsys, loaded, resolvedConfig, outcomes, logs,
                 reads, ops, margs, mres>>

\* the value a client writes
ClientValue == Str(<<"tampered">>)

\* a client module executes config.<field> = value
AssignField ==
  /\ ops < MaxOps
  /\ \E i \in 1..Len(ConfigFields) :
       heap' = SetProp(heap, Api, ConfigFields[i], ClientValue).h
  /\ ops' = ops + 1
  /\ UNCHANGED <<files, envVar, fsys, loaded, resolvedConfig, outcomes, logs,
                 reads, pred, margs, mres>>

\* a client module executes config.<section>.<key> = value
AssignNested ==
  /\ ops < MaxOps
  /\ \E i \in 1..Len(SchemaSections) :
       \E j \in 1..Len(SectionFields(SchemaSections[i])) :
         heap' = SetProp(heap, GetProp(heap, Api, SchemaSections[i]),
                         SectionFields(SchemaSections[i])[j], ClientValue).h
  /\ ops' = ops + 1
  /\ UNCHANGED <<files, envVar, fsys, loaded, resolvedConfig, outcomes, logs,
                 reads, pred, margs, mres>>

\* the deviations the life-cycle study starts from
LifecycleDeviations ==
  { Dev("envvar", 2, 0, <<>>), Dev("envvar", 3, 0, <<>>), Dev("nocommon", 0, 0, <<>>),
    Dev("fs", 2, 0, <<>>), Dev("slot", 3, 0, <<>>),
    Dev("envfile", 1, 1, EnvContents[1]) }

Init == \E T \in Scenarios(LifecycleDeviations, MaxLifecycleDeviations) : Start(T)

Next == Load \/ CallPredicate \/ AssignField \/ AssignNested

Spec == Init /\ [][Next]_vars

\* the first call of load() in each environment
FirstLoad == ~loaded /\ Load

InitPipeline == \E T \in Scenarios(Deviations, MaxDeviations) : Start(T)

NextPipeline == FirstLoad

SpecPipeline == InitPipeline /\ [][NextPipeline]_vars

(***************************************************************************)
(* The content of a tree, as the set of its nodes: one node per reachable  *)
(* path, so that two heaps can be compared by value.                       *)
(***************************************************************************)
RECURSIVE Flatten(_, _, _)
Flatten(h, v, path) ==
  IF v.t # "ref"
  THEN {[path |-> path, kind |-> "scalar", val |-> v, elems |-> <<>>]}
  ELSE {[path |-> path, kind |-> h[v.n].kind, val |-> Undef, elems |-> h[v.n].elems]}
       \cup UNION {Flatten(h, h[v.n].props[k], Append(path, k)) : k \in DOMAIN h[v.n].props}

Content(h, v) == Flatten(h, v, <<>>)

(***************************************************************************)
(* Inputs of the mergeDeep study: trees as ini.parse produces them.        *)
(***************************************************************************)
MaxMergeLines == 2

MergeAlphabet ==
  { KV("x", <<"1">>), KV("y", <<"1">>), Item("y", <<"1">>), Sec("y"),
    KV("a", <<"2">>), KV("x", <<"null">>) }

\* a file never opens a section under a name it has already given a scalar
WellFormed(lines) ==
  \A i, j \in 1..Len(lines) :
    (i < j /\ lines[j].kind = "section" /\ lines[i].kind # "section")
      => (lines[i].key # lines[j].key \/ \E m \in 1..(i - 1) : lines[m].kind = "section")

MergeDocs(n) ==
  {d \in UNION {[1..m -> MergeAlphabet] : m \in 0..n} : WellFormed(d)}

InitMerge ==
  /\ \E t \in MergeDocs(MaxMergeLines - 1), s1 \in MergeDocs(MaxMergeLines),
        s2 \in MergeDocs(MaxMergeLines), n \in 1..2 :
       LET h1 == IniParse(<<>>, t)
           h2 == IniParse(h1, s1)
           h3 == IF n = 2 THEN IniParse(h2, s2) ELSE h2
           srcs == IF n = 2 THEN <<Ref(Len(h1) + 1), Ref(Len(h2) + 1)>>
                   ELSE <<Ref(Len(h1) + 1)>>
       IN /\ heap = h3
          /\ margs = [target |-> Ref(1), sources |-> srcs,
                      before |-> [i \in 1..Len(srcs) |-> Content(h3, srcs[i])],
                      tbefore |-> Content(h3, Ref(1))]
  /\ mres = [done |-> FALSE, err |-> FALSE]
  /\ files = <<>> /\ envVar = <<>> /\ fsys = {} /\ loaded = FALSE
  /\ resolvedConfig = Null /\ outcomes = <<>> /\ logs = <<>> /\ reads = 0
  /\ pred = <<>> /\ ops = 0

\* one call mergeDeep(target, ...sources)
CallMerge ==
  /\ ~mres.done
  /\ LET r == MergeDeep(heap, margs.target, margs.sources)
     IN /\ heap' = r.h
        /\ mres' = [done |-> TRUE, err |-> r.err]
  /\ UNCHANGED <<files, envVar, fsys, loaded, resolvedConfig, outcomes, logs,
                 reads, pred, ops, margs>>

NextMerge == CallMerge

SpecMerge == InitMerge /\ [][NextMerge]_vars

(***************************************************************************)
(* Properties of load() over the life of a process                         *)
(***************************************************************************)
\* C1: the pipeline (and every file read) is run by the first call of load()
\* only; a later call reads no file, logs nothing, changes neither the heap
\* nor the published config, and returns normally.
C1_LoadOnce ==
  [][(Len(outcomes) >= 1 /\ Len(outcomes') > Len(outcomes))
       => /\ reads' = reads
          /\ logs' = logs
          /\ heap' = heap
          /\ resolvedConfig' = resolvedConfig
          /\ outcomes'[Len(outcomes')] = NoError]_vars

\* a second call of load() has returned after a first one that read both files
C1_Witness ==
  /\ Len(outcomes) >= 2
  /\ outcomes[1].result = "returned"
  /\ reads = 2
  /\ resolvedConfig # Null

\* C2: once a config is published it is immutable: no later client operation
\* changes a published field, at the top level or inside a section, and the
\* published config is never replaced.
C2_PublishedConfigImmutable ==
  [][resolvedConfig # Null
       => /\ resolvedConfig' = resolvedConfig
          /\ Content(heap', resolvedConfig) = Content(heap, resolvedConfig)
          /\ Content(heap', Api) = Content(heap, Api)]_vars

\* C9: the load-complete log entry names the environment that is published
\* and that the predicates test.
C9_LogNamesPublishedEnvironment ==
  \A i \in 1..Len(logs) :
    logs[i].what = "load-complete"
      => /\ resolvedConfig # Null
         /\ GetProp(heap, resolvedConfig, "env") = Str(logs[i].arg)

\* a complete config: a known environment and the five sections
Complete ==
  /\ resolvedConfig # Null
  /\ GetProp(heap, resolvedConfig, "env").s \in Environments
  /\ \A i \in 1..Len(SchemaSections) :
       IsTree(heap, GetProp(heap, resolvedConfig, SchemaSections[i]))

\* C10: whenever a call of load() has returned normally, a complete config is
\* published; load() never returns without error while nothing is published.
C10_ReturnImpliesPublished ==
  (\E i \in 1..Len(outcomes) : outcomes[i].result = "returned") => Complete

(***************************************************************************)
(* Properties of the first load(), by environment                          *)
(***************************************************************************)
FirstDone == Len(outcomes) >= 1

\* the tree the Merger hands to the Validator in the current environment
MergedRoot(c, e) == Ref(Len(e.h) + 1)

MergedOf(c, e) ==
  MergeDeep(Alloc(e.h, EmptyObject), MergedRoot(c, e), <<c.tree, e.tree>>)

ParsedCommon == LoadIniFile(<<EmptyObject>>, files, <<"common", ".ini">>, TRUE)

ParsedEnv(c) ==
  LoadIniFile(c.h, files, Runtime(envVar) \o <<".ini">>, Runtime(envVar) = <<"production">>)

\* the first load() got as far as validate
ReachedValidation ==
  FirstDone /\ outcomes[1].result \notin {"MissingConfigFile", "TypeError"}

ListedFields ==
  {<<"NODE_ENV">>}
  \cup UNION {{<<SchemaSections[i], SectionFields(SchemaSections[i])[j]>> :
                 j \in 1..Len(SectionFields(SchemaSections[i]))} : i \in 1..Len(SchemaSections)}

CheckedPaths == {"static", "views", "viewsLayouts", "viewsPartials", "emails"}

\* the value of a listed field in tree root of heap h (undefined when absent)
FieldValue(h, root, f) ==
  IF Len(f) = 1 THEN GetProp(h, root, f[1]) ELSE GetProp(h, GetProp(h, root, f[1]), f[2])

\* an integer, or a string of digits, within lo..hi (hi = 0: no maximum)
IntegerWithin(v, lo, hi) ==
  /\ v.t = "number" \/ (v.t = "string" /\ IsDigits(v.s))
  /\ LET n == IF v.t = "number" THEN v.n ELSE ToNumber(v.s)
     IN n >= lo /\ (hi = 0 \/ n <= hi)

\* the rule the documentation states for a listed field
RuleHolds(f, v) ==
  IF f = <<"NODE_ENV">> THEN v.t = "string" /\ v.s \in Environments
  ELSE CASE f[2] = "port" -> IntegerWithin(v, 1, MaxPort)
         [] f[2] \in {"minutes", "requests"} -> IntegerWithin(v, 1, 0)
         [] f[2] = "bodyLimit" -> v.t = "string" /\ MatchesBodyLimit(v.s)
         [] f[2] = "secret" -> v.t = "string" /\ StrLen(v.s) >= MinSecret
         [] f[2] = "url" -> v.t = "string" /\ IsUri(v.s)
         [] OTHER -> v.t = "string" /\ v.s # <<>>

ViolatedFields(h, root) == {f \in ListedFields : ~RuleHolds(f, FieldValue(h, root, f))}

Listed(f, details) == \E i \in 1..Len(details) : details[i].path = f

\* C5 as stated: when k >= 1 listed fields are violated, validate fails with
\* InvalidConfiguration, publishes nothing, checks no path, and the message
\* lists a violation for each violated field.
C5_EveryViolatedFieldListed ==
  ReachedValidation =>
    LET c == ParsedCommon
        e == ParsedEnv(c)
        m == MergedOf(c, e)
        bad == ViolatedFields(m.h, MergedRoot(c, e))
    IN bad # {} =>
         /\ outcomes[1].result = "InvalidConfiguration"
         /\ resolvedConfig = Null
         /\ \A f \in bad : Listed(f, outcomes[1].details)

\* C5 as amended: as C5, but a section that is missing or not a tree is listed
\* once, under the section's own name, for all the fields it should hold.
C5_EveryViolatedFieldOrItsSectionListed ==
  ReachedValidation =>
    LET c == ParsedCommon
        e == ParsedEnv(c)
        m == MergedOf(c, e)
        root == MergedRoot(c, e)
        bad == ViolatedFields(m.h, root)
    IN bad # {} =>
         /\ outcomes[1].result = "InvalidConfiguration"
         /\ resolvedConfig = Null
         /\ \A f \in bad :
              IF Len(f) = 2 /\ ~IsTree(m.h, GetProp(m.h, root, f[1]))
              THEN Listed(<<f[1]>>, outcomes[1].details)
              ELSE Listed(f, outcomes[1].details)

\* a missing http.port and a short session.secret are reported together
C5_Witness ==
  /\ FirstDone
  /\ outcomes[1].result = "InvalidConfiguration"
  /\ Listed(<<"http", "port">>, outcomes[1].details)
  /\ Listed(<<"session", "secret">>, outcomes[1].details)
  /\ Len(outcomes[1].details) = 2
  /\ resolvedConfig = Null

KnownPaths == {<<>>, <<"env">>} \cup {<<SchemaSections[i]>> : i \in 1..Len(SchemaSections)}
              \cup {f \in ListedFields : Len(f) = 2}

\* C6: a tree whose listed fields all satisfy their rules validates whatever
\* other fields it has, at the top level or inside a section, and none of
\* those other fields is carried into the published config.
C6_UnknownFieldsIgnored ==
  ReachedValidation =>
    LET c == ParsedCommon
        e == ParsedEnv(c)
        m == MergedOf(c, e)
        root == MergedRoot(c, e)
    IN (/\ ViolatedFields(m.h, root) = {}
        /\ \A k \in CheckedPaths :
             PathResolve(PROJECT_ROOT, FieldValue(m.h, root, <<"paths", k>>).s) \in fsys)
       => /\ outcomes[1].result = "returned"
          /\ resolvedConfig # Null
          /\ \A n \in Content(heap, resolvedConfig) : n.path \in KnownPaths

\* C7: common.ini is always required, <runtime>.ini exactly when runtime is
\* production; a missing required file fails load() with the attempted path;
\* a missing optional file is warned about and load() succeeds whenever
\* common.ini alone is valid with existing paths.
C7_FileRequiredness ==
  FirstDone =>
    LET rt == IF envVar = <<>> THEN <<"development">> ELSE envVar
        envp == EnvPath(rt)
        o == outcomes[1]
        Missing(path) == [result |-> "MissingConfigFile", path |-> path, field |-> "",
                          details |-> <<>>]
    IN /\ CommonPath \notin DOMAIN files => o = Missing(CommonPath)
       /\ (CommonPath \in DOMAIN files /\ rt = <<"production">> /\ envp \notin DOMAIN files)
            => o = Missing(envp)
       /\ o.result = "MissingConfigFile"
            => \/ CommonPath \notin DOMAIN files
               \/ (rt = <<"production">> /\ envp \notin DOMAIN files)
       /\ (CommonPath \in DOMAIN files /\ rt # <<"production">> /\ envp \notin DOMAIN files)
            => /\ LogEntry("warn", "file-missing", envp) \in {logs[i] : i \in 1..Len(logs)}
               /\ LET h == IniParse(<<>>, files[CommonPath])
                  IN (/\ SchemaErrors(h, Ref(1)) = <<>>
                      /\ \A k \in CheckedPaths :
                           PathResolve(PROJECT_ROOT,
                                       FieldValue(h, Ref(1), <<"paths", k>>).s) \in fsys)
                     => o.result = "returned" /\ resolvedConfig # Null

\* runtime staging without a staging.ini: a warning, and load() succeeds
C7_Witness ==
  /\ FirstDone
  /\ envVar = <<"staging">>
  /\ EnvPath(<<"staging">>) \notin DOMAIN files
  /\ outcomes[1].result = "returned"
  /\ LogEntry("warn", "file-missing", EnvPath(<<"staging">>)) \in {logs[i] : i \in 1..Len(logs)}
  /\ reads = 1

\* the keys of the merged paths section that come before key
KeysBefore(h, paths, key) ==
  {h[paths.n].ord[i] : i \in {j \in 1..Len(h[paths.n].ord) :
      \E k \in (j + 1)..Len(h[paths.n].ord) : h[paths.n].ord[k] = key}}

Prefixes(path) == {SubSeq(path, 1, k) : k \in 1..Len(path)}

KindAt(C, q) == IF \E e \in C : e.path = q THEN (CHOOSE e \in C : e.path = q).kind ELSE "none"

\* right-biased deep merge of content S into content T: a node of T survives
\* unless S replaces it or one of its ancestors; two nested trees are merged
RightBiased(T, S) ==
  {e \in T : \A q \in Prefixes(e.path) :
     KindAt(S, q) = "none" \/ (KindAt(S, q) = "object" /\ KindAt(T, q) = "object")}
  \cup S

RECURSIVE RightBiasedAll(_, _, _)
RightBiasedAll(T, Ss, j) ==
  IF j > Len(Ss) THEN T ELSE RightBiasedAll(RightBiased(T, Ss[j]), Ss, j + 1)

\* C3: merge always completes, never fails, and returns the right-biased deep
\* merge of the sources into the target: nested trees are merged recursively,
\* in every other case the incoming value replaces the target value.
C3_MergeIsRightBiasedDeepMerge ==
  mres.done =>
    /\ ~mres.err
    /\ Content(heap, margs.target) = RightBiasedAll(margs.tbefore, margs.before, 1)

\* C4: after merge every source tree, with every nested tree and array
\* reachable from it, has exactly the content it had before the call.
C4_SourcesNotMutated ==
  mres.done =>
    \A i \in 1..Len(margs.sources) : Content(heap, margs.sources[i]) = margs.before[i]

====
